---- MODULE Spec2Model ----
(***************************************************************************)
(* A model of the order book of src/main.rs: order classification          *)
(* (Order::order_type), admission (OrderBook::add_order) and the bid       *)
(* matching step (OrderBook::take_bid_order).                              *)
(*                                                                         *)
(* U256 is narrowed to Width bits; prices and quantities are drawn from    *)
(* small sets.  Orders are submitted with filled_quantity <= quantity and  *)
(* with the nonce counting the submissions, so that a nonce identifies an  *)
(* order and gives its admission rank.                                     *)
(***************************************************************************)
EXTENDS Integers, Sequences, FiniteSets, TLC

\* ---------------------------------------------------------------- bounds
Width == 4
MaxQty == 3
MaxFilled == 1
MaxOrders == 3

\* ---------------------------------------------------------------- U256
U256_ZERO == 0
U256_MAX == 2 ^ Width - 1
Modulus == U256_MAX + 1

\* U256 subtraction and addition: the wrapped value, and whether the exact
\* result leaves the domain (a panic in a debug build).
Sub(a, b) == (a - b + Modulus) % Modulus
SubUnderflows(a, b) == a < b
Add(a, b) == (a + b) % Modulus
AddOverflows(a, b) == a + b > U256_MAX

\* ---------------------------------------------------------------- Order
Side == {"Bid", "Ask"}
OrderType == {"Market", "Limit", "Stop", "StopLimit"}

Order(ow, n, q, f, lp, sp, sd, aon) ==
  [owner |-> ow, nonce |-> n, quantity |-> q, filled_quantity |-> f,
   limit_price |-> lp, stop_price |-> sp, expire_timestamp |-> 0,
   side |-> sd, only_full_fill |-> aon]

None == [some |-> FALSE]
Some(v) == [some |-> TRUE, value |-> v]

order_type_swapped(order) ==
  LET lp == order.limit_price
      sp == order.stop_price
  IN IF order.side = "Ask"
     THEN IF lp = U256_MAX /\ sp = U256_ZERO THEN Some("Market")
          ELSE IF sp = U256_ZERO /\ lp < U256_MAX THEN Some("Limit")
          ELSE IF lp = U256_MAX /\ sp > U256_ZERO THEN Some("Stop")
          ELSE IF lp < U256_MAX /\ sp > U256_ZERO THEN Some("StopLimit")
          ELSE None
     ELSE IF lp = U256_ZERO /\ sp = U256_MAX THEN Some("Market")
          ELSE IF sp = U256_MAX /\ lp > U256_ZERO THEN Some("Limit")
          ELSE IF lp = U256_ZERO /\ sp < U256_MAX THEN Some("Stop")
          ELSE IF lp > U256_ZERO /\ sp < U256_MAX THEN Some("StopLimit")
          ELSE None

\* The match arms are tried in order; the first that matches decides.
order_type(order) ==
  LET lp == order.limit_price
      sp == order.stop_price
  IN IF order.side = "Bid"
     THEN IF lp = U256_MAX /\ sp = U256_ZERO THEN Some("Market")
          ELSE IF sp = U256_ZERO /\ lp < U256_MAX THEN Some("Limit")
          ELSE IF lp = U256_MAX /\ sp > U256_ZERO THEN Some("Stop")
          ELSE IF lp < U256_MAX /\ sp > U256_ZERO THEN Some("StopLimit")
          ELSE None
     ELSE IF lp = U256_ZERO /\ sp = U256_MAX THEN Some("Market")
          ELSE IF sp = U256_MAX /\ lp > U256_ZERO THEN Some("Limit")
          ELSE IF lp = U256_ZERO /\ sp < U256_MAX THEN Some("Stop")
          ELSE IF lp > U256_ZERO /\ sp < U256_MAX THEN Some("StopLimit")
          ELSE None

\* ---------------------------------------------------------------- containers
\* A BTreeMap<U256, VecDeque<Order>> is a function from its keys to queues.
EmptyMap == [k \in {} |-> <<>>]

Range(s) == {s[i] : i \in 1..Len(s)}

push_front(q, order) == <<order>> \o q

\* VecDeque::push_back
push_back(q, order) == Append(q, order)

get_from_back(q, i) == q[Len(q) - i]

\* VecDeque::get_mut(i), i counted from 0, for i < len
get(q, i) == q[i + 1]

remove_front(q, i) == Tail(q)

\* VecDeque::remove(i), i counted from 0
remove(q, i) == SubSeq(q, 1, i) \o SubSeq(q, i + 2, Len(q))

\* map.entry(key).or_default().push_back(order)
entry_push_back(map, key, order) ==
  [k \in DOMAIN map \cup {key} |->
     IF k = key
     THEN push_back(IF key \in DOMAIN map THEN map[key] ELSE <<>>, order)
     ELSE map[k]]

\* BTreeMap::remove for each key of a list
remove_levels(map, levels) ==
  [k \in DOMAIN map \ Range(levels) |-> map[k]]

RECURSIVE Descending(_)
Descending(S) ==
  IF S = {} THEN <<>>
  ELSE LET m == CHOOSE x \in S : \A y \in S : y <= x
       IN <<m>> \o Descending(S \ {m})

\* BTreeMap::iter_mut visits the keys in ascending order
RECURSIVE iter_keys(_)
iter_keys(S) ==
  IF S = {} THEN <<>>
  ELSE LET m == CHOOSE x \in S : \A y \in S : x <= y
       IN <<m>> \o iter_keys(S \ {m})

\* ---------------------------------------------------------------- the sweep
\* quantity - filled_quantity of an order
available_quantity(order) == Sub(order.quantity, order.filled_quantity)

partially_filled_flipped(ask_available_quantity, taker_available_quantity) ==
  ask_available_quantity < taker_available_quantity

\* "if the ask order is only partially filled"
partially_filled(ask_available_quantity, taker_available_quantity) ==
  ask_available_quantity > taker_available_quantity

skip_ask_never(ask) == FALSE

\* an all-or-nothing ask that would be partially filled is stepped over
skip_ask(ask) == ask.only_full_fill

fill_ask_whole(ask, taker_available_quantity) ==
  [ask EXCEPT !.filled_quantity = ask.quantity]

\* ask.filled_quantity += taker_available_quantity
fill_ask(ask, taker_available_quantity) ==
  [ask EXCEPT !.filled_quantity = Add(@, taker_available_quantity)]

\* One entry of the sweep's record of what it did to an ask: the ask as the
\* sweep found it, and the taker's need at that moment.
Visit(cursor, ask, kind, need) ==
  [cursor |-> cursor, nonce |-> ask.nonce, price |-> ask.limit_price,
   kind |-> kind, need |-> need, ask |-> ask]

\* The states of the loops.  The inner loop over one price level carries the
\* queue of the level, ask_cursor, taker_available_quantity (need),
\* maker_orders and whether the level was pushed to empty_price_levels; the
\* outer loop carries asks, need, maker_orders and empty_price_levels.  Both
\* carry the record of the visits and of the arithmetic that left the U256
\* domain.

\* the ask is all-or-nothing and too large: ask_cursor += 1; continue
step_over(cursor, s, ask) ==
  [s EXCEPT !.ask_cursor = @ + 1,
            !.overflow = @ \/ SubUnderflows(ask.quantity, ask.filled_quantity),
            !.visits = Append(@, Visit(cursor, ask, "skip", s.need))]

\* the ask covers the need: it is filled in place and the need is zero
fill_partially(cursor, s, ask) ==
  [s EXCEPT !.queue[s.ask_cursor + 1] = fill_ask(ask, s.need),
            !.maker_orders = Append(@, fill_ask(ask, s.need)),
            !.need = U256_ZERO,
            !.overflow = \/ @
                         \/ SubUnderflows(ask.quantity, ask.filled_quantity)
                         \/ AddOverflows(ask.filled_quantity, s.need),
            !.visits = Append(@, Visit(cursor, ask, "partial", s.need))]

\* the ask is completely filled: it is removed and the need reduced
fill_completely(cursor, s, ask) ==
  [s EXCEPT !.queue = remove(@, s.ask_cursor),
            !.maker_orders = Append(@, ask),
            !.need = Sub(@, available_quantity(ask)),
            !.overflow = \/ @
                         \/ SubUnderflows(ask.quantity, ask.filled_quantity)
                         \/ SubUnderflows(s.need, available_quantity(ask)),
            !.visits = Append(@, Visit(cursor, ask, "full", s.need))]

RECURSIVE level_loop(_, _)

\* the end of an iteration that filled an ask: break when the need is zero
next_ask(cursor, s) ==
  IF s.need = U256_ZERO THEN s ELSE level_loop(cursor, s)

\* one iteration on the ask at ask_cursor
visit_ask(cursor, s, ask) ==
  IF partially_filled(available_quantity(ask), s.need)
  THEN IF skip_ask(ask)
       THEN level_loop(cursor, step_over(cursor, s, ask))
       ELSE fill_partially(cursor, s, ask)
  ELSE next_ask(cursor, fill_completely(cursor, s, ask))

\* The inner loop over one price level, oldest ask first.
level_loop(cursor, s) ==
  IF s.ask_cursor < Len(s.queue)
  THEN visit_ask(cursor, s, get(s.queue, s.ask_cursor))
  ELSE [s EXCEPT !.empty = (s.ask_cursor = 0)]

\* the inner loop's state when it enters a price level
enter_level(st, price_level) ==
  [queue |-> st.asks[price_level], ask_cursor |-> 0, need |-> st.need,
   maker_orders |-> st.maker_orders, empty |-> FALSE, visits |-> st.visits,
   overflow |-> st.overflow]

\* the outer loop's state when the inner loop leaves a price level with r
leave_level(st, price_level, r) ==
  [asks |-> [st.asks EXCEPT ![price_level] = r.queue],
   need |-> r.need,
   maker_orders |-> r.maker_orders,
   empty_price_levels |->
     IF r.empty THEN Append(st.empty_price_levels, price_level)
     ELSE st.empty_price_levels,
   visits |-> r.visits,
   overflow |-> r.overflow]

RECURSIVE sweep(_, _, _, _)

\* the end of an iteration of the outer loop: break when the need is zero
next_level(cursor, levels, i, st) ==
  IF st.need = U256_ZERO THEN st ELSE sweep(cursor, levels, i + 1, st)

\* The outer loop over the price levels, from levels[i] on.
sweep(cursor, levels, i, st) ==
  IF i > Len(levels) THEN st
  ELSE next_level(cursor, levels, i,
         leave_level(st, levels[i],
           level_loop(cursor, enter_level(st, levels[i]))))

\* The sweep for the taker at cursor, with the empty price levels removed
\* from asks afterwards.
swept(sw) ==
  [sw EXCEPT !.asks = remove_levels(@, sw.empty_price_levels)]
sweep_asks(cursor, b, taker_order) ==
  swept(sweep(cursor, iter_keys(DOMAIN b.asks), 1,
          [asks |-> b.asks, need |-> available_quantity(taker_order),
           maker_orders |-> <<>>, empty_price_levels |-> <<>>,
           visits |-> b.visits,
           overflow |-> b.overflow
             \/ SubUnderflows(taker_order.quantity, taker_order.filled_quantity)]))

\* ---------------------------------------------------------------- take_bid_order
\* What the call returns: Some((taker, maker_orders)) or None.
Matched(taker_order, maker_orders) ==
  Some([taker |-> taker_order, makers |-> maker_orders])

retry_cursor_skipping(cursor) == cursor + 2

\* the cursor of the recursive call
retry_cursor(cursor) == cursor + 1

\* The record of one attempted taker: its sweep sw on the book b.
Attempt(cursor, b, taker_order, sw) ==
  [cursor |-> cursor, taker |-> taker_order,
   need_before |-> available_quantity(taker_order), need_after |-> sw.need,
   maker_orders |-> sw.maker_orders,
   asks_before |-> b.asks, asks_after |-> sw.asks]

update_taker_stale(taker_order, need) == taker_order

\* taker_order.filled_quantity = taker_order.quantity - taker_available_quantity
update_taker(taker_order, need) ==
  [taker_order EXCEPT !.filled_quantity = Sub(taker_order.quantity, need)]

result_unchecked(taker_order, maker_orders) ==
  Matched(taker_order, maker_orders)

\* Some((taker, maker_orders)) if there is a maker order, else None
result(taker_order, maker_orders) ==
  IF Len(maker_orders) > 0 THEN Matched(taker_order, maker_orders) ELSE None

\* b: asks, market_bids, and the records kept across the recursion (visits,
\* attempts, overflow).  The result adds ret, the returned value.
RECURSIVE take_bid_order(_, _)

resolve_undoing(cursor, b, taker_order, sw) ==
  IF sw.need > U256_ZERO
  THEN IF taker_order.only_full_fill
       THEN take_bid_order(retry_cursor(cursor),
              [asks |-> b.asks, market_bids |-> b.market_bids,
               visits |-> sw.visits,
               attempts |-> Append(b.attempts, Attempt(cursor, b, taker_order, sw)),
               overflow |-> sw.overflow])
       ELSE [asks |-> sw.asks,
             market_bids |-> [b.market_bids EXCEPT ![cursor + 1] =
                                update_taker(taker_order, sw.need)],
             ret |-> result(update_taker(taker_order, sw.need), sw.maker_orders),
             visits |-> sw.visits,
             attempts |-> Append(b.attempts, Attempt(cursor, b, taker_order, sw)),
             overflow |-> sw.overflow \/ SubUnderflows(taker_order.quantity, sw.need)]
  ELSE [asks |-> sw.asks,
        market_bids |-> IF Len(sw.maker_orders) > 0
                        THEN remove(b.market_bids, cursor) ELSE b.market_bids,
        ret |-> result(taker_order, sw.maker_orders),
        visits |-> sw.visits,
        attempts |-> Append(b.attempts, Attempt(cursor, b, taker_order, sw)),
        overflow |-> sw.overflow]

\* The resolution after the sweep sw of the taker at cursor.
resolve(cursor, b, taker_order, sw) ==
  IF sw.need > U256_ZERO
  THEN IF taker_order.only_full_fill
       THEN take_bid_order(retry_cursor(cursor),
              [asks |-> sw.asks, market_bids |-> b.market_bids,
               visits |-> sw.visits,
               attempts |-> Append(b.attempts, Attempt(cursor, b, taker_order, sw)),
               overflow |-> sw.overflow])
       ELSE [asks |-> sw.asks,
             market_bids |-> [b.market_bids EXCEPT ![cursor + 1] =
                                update_taker(taker_order, sw.need)],
             ret |-> result(update_taker(taker_order, sw.need), sw.maker_orders),
             visits |-> sw.visits,
             attempts |-> Append(b.attempts, Attempt(cursor, b, taker_order, sw)),
             overflow |-> sw.overflow \/ SubUnderflows(taker_order.quantity, sw.need)]
  ELSE [asks |-> sw.asks,
        market_bids |-> IF Len(sw.maker_orders) > 0
                        THEN remove(b.market_bids, cursor) ELSE b.market_bids,
        ret |-> result(taker_order, sw.maker_orders),
        visits |-> sw.visits,
        attempts |-> Append(b.attempts, Attempt(cursor, b, taker_order, sw)),
        overflow |-> sw.overflow]

\* the sweep and the resolution for the taker at cursor
attempt_taker(cursor, b, taker_order) ==
  resolve(cursor, b, taker_order, sweep_asks(cursor, b, taker_order))

take_bid_order(cursor, b) ==
  IF cursor >= Len(b.market_bids)
  THEN [asks |-> b.asks, market_bids |-> b.market_bids, ret |-> None,
        visits |-> b.visits, attempts |-> b.attempts, overflow |-> b.overflow]
  ELSE attempt_taker(cursor, b, get(b.market_bids, cursor))

\* ---------------------------------------------------------------- the book
VARIABLES
  bids, asks, stop_bids, stop_asks,   \* BTreeMap<U256, VecDeque<Order>>
  market_bids, market_asks,           \* VecDeque<Order>
  last_price_level,                   \* U256
  submitted,                          \* number of orders submitted so far
  call,                               \* the last call and its arguments
  ret,                                \* what the last call returned
  pre,                                \* the book when the last call started
  visits,                             \* asks visited by the last matching call, in order
  attempts,                           \* takers attempted by the last matching call, in order
  overflow                            \* some U256 operation left the domain

vars == <<bids, asks, stop_bids, stop_asks, market_bids, market_asks,
          last_price_level, submitted, call, ret, pre, visits, attempts,
          overflow>>

Book == [bids |-> bids, asks |-> asks, stop_bids |-> stop_bids,
         stop_asks |-> stop_asks, market_bids |-> market_bids,
         market_asks |-> market_asks, last_price_level |-> last_price_level]

from_initial_price(initial_price) ==
  [bids |-> EmptyMap, asks |-> EmptyMap, stop_bids |-> EmptyMap,
   stop_asks |-> EmptyMap, market_bids |-> <<>>, market_asks |-> <<>>,
   last_price_level |-> initial_price]

\* the key under which a Stop or StopLimit order is stored
stop_key(order) == order.limit_price

add_order_one_side(book, order) ==
  IF ~order_type(order).some THEN [book |-> book, ok |-> FALSE]
  ELSE IF order_type(order).value = "Market"
    THEN [book |-> [book EXCEPT !.market_bids = push_back(@, order)], ok |-> TRUE]
  ELSE IF order_type(order).value = "Limit"
    THEN [book |-> [book EXCEPT !.bids = entry_push_back(@, order.limit_price, order)],
          ok |-> TRUE]
  ELSE [book |-> [book EXCEPT !.stop_bids = entry_push_back(@, stop_key(order), order)],
        ok |-> TRUE]

\* The book after add_order(order), and whether it returned Ok(()).
add_order(book, order) ==
  IF ~order_type(order).some THEN [book |-> book, ok |-> FALSE]
  ELSE IF order_type(order).value = "Market"
    THEN IF order.side = "Bid"
         THEN [book |-> [book EXCEPT !.market_bids = push_back(@, order)], ok |-> TRUE]
         ELSE [book |-> [book EXCEPT !.market_asks = push_back(@, order)], ok |-> TRUE]
  ELSE IF order_type(order).value = "Limit"
    THEN IF order.side = "Bid"
         THEN [book |-> [book EXCEPT !.bids =
                           entry_push_back(@, order.limit_price, order)],
               ok |-> TRUE]
         ELSE [book |-> [book EXCEPT !.asks =
                           entry_push_back(@, order.limit_price, order)],
               ok |-> TRUE]
  ELSE IF order.side = "Bid"
         THEN [book |-> [book EXCEPT !.stop_bids =
                           entry_push_back(@, stop_key(order), order)],
               ok |-> TRUE]
         ELSE [book |-> [book EXCEPT !.stop_asks =
                           entry_push_back(@, stop_key(order), order)],
               ok |-> TRUE]

\* ---------------------------------------------------------------- inputs
InitialPrices == {1}
AskPrices == {1, 2}
Quantities == 0..MaxQty

\* Limit asks and market bids, the orders the matching step works on.
LimitAsks(n) ==
  {Order("a", n, q, f, p, U256_MAX, "Ask", aon) :
     q \in Quantities, f \in 0..MaxFilled, p \in AskPrices, aon \in BOOLEAN}
MarketBids(n) ==
  {Order("b", n, q, f, U256_MAX, U256_ZERO, "Bid", aon) :
     q \in Quantities, f \in 0..MaxFilled, aon \in BOOLEAN}
\* One order of each other kind.
OtherOrders(n) ==
  {Order("c", n, 1, 0, 1, U256_ZERO, "Bid", FALSE),
   Order("c", n, 1, 0, U256_MAX, 1, "Bid", FALSE),
   Order("c", n, 1, 0, 2, 1, "Bid", FALSE),
   Order("c", n, 1, 0, U256_ZERO, U256_MAX, "Ask", FALSE),
   Order("c", n, 1, 0, U256_ZERO, 1, "Ask", FALSE),
   Order("c", n, 1, 0, 2, 1, "Ask", FALSE)}
OrderInputs(n) ==
  {o \in LimitAsks(n) \cup MarketBids(n) \cup OtherOrders(n) :
     o.filled_quantity <= o.quantity}

\* ---------------------------------------------------------------- actions
NoCall == [op |-> "new"]

Init ==
  /\ \E initial_price \in InitialPrices :
       LET b == from_initial_price(initial_price)
       IN /\ bids = b.bids
          /\ asks = b.asks
          /\ stop_bids = b.stop_bids
          /\ stop_asks = b.stop_asks
          /\ market_bids = b.market_bids
          /\ market_asks = b.market_asks
          /\ last_price_level = b.last_price_level
          /\ pre = b
  /\ submitted = 0
  /\ call = NoCall
  /\ ret = None
  /\ visits = <<>>
  /\ attempts = <<>>
  /\ overflow = FALSE

SetBook(b) ==
  /\ bids' = b.bids
  /\ asks' = b.asks
  /\ stop_bids' = b.stop_bids
  /\ stop_asks' = b.stop_asks
  /\ market_bids' = b.market_bids
  /\ market_asks' = b.market_asks
  /\ last_price_level' = b.last_price_level

\* The call add_order(order) returned r.
Admit(order, r) ==
  /\ SetBook(r.book)
  /\ call' = [op |-> "add_order", order |-> order]
  /\ ret' = [ok |-> r.ok]

\* A caller submits an order.
AddOrder ==
  /\ submitted < MaxOrders
  /\ \E order \in OrderInputs(submitted + 1) : Admit(order, add_order(Book, order))
  /\ submitted' = submitted + 1
  /\ pre' = Book
  /\ visits' = <<>>
  /\ attempts' = <<>>
  /\ UNCHANGED overflow

\* The call take_bid_order(cursor) returned r.ret and left the book as r.
Take(cursor, r) ==
  /\ asks' = r.asks
  /\ market_bids' = r.market_bids
  /\ call' = [op |-> "take_bid_order", cursor |-> cursor]
  /\ ret' = r.ret
  /\ visits' = r.visits
  /\ attempts' = r.attempts
  /\ overflow' = (overflow \/ r.overflow)

\* The records of a call are empty when it starts.
Entering(book_asks, book_market_bids) ==
  [asks |-> book_asks, market_bids |-> book_market_bids, visits |-> <<>>,
   attempts |-> <<>>, overflow |-> FALSE]

\* A caller runs the bid matching step from some cursor, one past the end of
\* market_bids included.
TakeBidOrder ==
  /\ \E cursor \in 0..Len(market_bids) :
       Take(cursor, take_bid_order(cursor, Entering(asks, market_bids)))
  /\ pre' = Book
  /\ UNCHANGED <<bids, stop_bids, stop_asks, market_asks, last_price_level, submitted>>

Next == AddOrder \/ TakeBidOrder

Spec == Init /\ [][Next]_vars

TypeOK ==
  /\ submitted \in 0..MaxOrders
  /\ overflow \in BOOLEAN

\* ---------------------------------------------------------------- vocabulary
\* The orders held in the queues of a map.
Resting(map) == UNION {Range(map[k]) : k \in DOMAIN map}

\* The unfilled quantity of each order of a set, summed.
RECURSIVE TotalUnfilled(_)
TotalUnfilled(S) ==
  IF S = {} THEN 0
  ELSE LET o == CHOOSE x \in S : TRUE
       IN (o.quantity - o.filled_quantity) + TotalUnfilled(S \ {o})

\* The order of a set that has the nonce of o, if it is still there.
Still(S, o) == {x \in S : x.nonce = o.nonce}

TookBid == call.op = "take_bid_order"
TookBidAtFront == TookBid /\ call.cursor = 0

\* ---------------------------------------------------------------- C1
\* C1: quantity conservation.  Over a matching call started at the front of
\* market_bids, the unfilled quantity taken from the resting asks (a removed
\* ask counting as wholly taken) plus the market bids' need after the call
\* equals the market bids' need before the call.
C1_Conservation ==
  TookBidAtFront =>
    (TotalUnfilled(Resting(pre.asks)) - TotalUnfilled(Resting(asks)))
      + TotalUnfilled(Range(market_bids))
    = TotalUnfilled(Range(pre.market_bids))

\* ---------------------------------------------------------------- C2
\* C2: all-or-nothing makers are never partially filled by matching.  Every
\* all-or-nothing ask resting before a matching call is afterwards either in
\* its queue with filled_quantity unchanged, or gone from the book, consumed
\* whole by a taker whose need covered its available quantity.  And when the
\* only resting ask is all-or-nothing with more available than any market bid
\* from the cursor on needs, the call returns None and changes no order.
C2_AonMakerUntouchedOrConsumed ==
  TookBid =>
    /\ \A a \in Resting(pre.asks) :
         a.only_full_fill =>
           \/ /\ a.limit_price \in DOMAIN asks
              /\ a \in Range(asks[a.limit_price])
           \/ /\ Still(Resting(asks), a) = {}
              /\ \E i \in 1..Len(visits) :
                   /\ visits[i].nonce = a.nonce
                   /\ visits[i].kind = "full"
                   /\ visits[i].need >= a.quantity - a.filled_quantity
    /\ \A a \in Resting(pre.asks) :
         ( /\ Resting(pre.asks) = {a}
           /\ a.only_full_fill
           /\ call.cursor < Len(pre.market_bids)
           /\ \A c \in (call.cursor + 1)..Len(pre.market_bids) :
                a.quantity - a.filled_quantity
                  > pre.market_bids[c].quantity - pre.market_bids[c].filled_quantity )
         => /\ ret = None
            /\ Resting(asks) = {a}
            /\ market_bids = pre.market_bids

\* C2 witness: one call skipped an all-or-nothing ask and consumed another.
C2_Witness ==
  /\ TookBid
  /\ \E a1, a2 \in Resting(pre.asks) :
       /\ a1.only_full_fill /\ a2.only_full_fill
       /\ a1 \in Resting(asks)
       /\ a1.quantity - a1.filled_quantity > 0
       /\ Still(Resting(asks), a2) = {}
       /\ a2.quantity - a2.filled_quantity > 0
       /\ \E i \in 1..Len(visits) : visits[i].nonce = a1.nonce /\ visits[i].kind = "skip"

\* C2 witness of the scenario: the only resting ask is all-or-nothing and too
\* large for the only market bid.
C2_WitnessScenario ==
  /\ TookBidAtFront
  /\ Len(pre.market_bids) = 1
  /\ \E a \in Resting(pre.asks) :
       /\ Resting(pre.asks) = {a}
       /\ a.only_full_fill
       /\ a.quantity - a.filled_quantity
            > pre.market_bids[1].quantity - pre.market_bids[1].filled_quantity
       /\ pre.market_bids[1].quantity - pre.market_bids[1].filled_quantity > 0

\* ---------------------------------------------------------------- C3
\* The need of a market bid as the book holds it.
Need(order) == order.quantity - order.filled_quantity

\* C3: an all-or-nothing taker whose sweep ends with need > 0 is not reported
\* as filled.  It stays in market_bids at its position with filled_quantity
\* unchanged, it is not the taker of the returned result, the next taker
\* attempted is the one at the next cursor position, on the book as the
\* abandoned sweep left it, and the call returns what the matching step
\* started at that next position on that book returns.
C3_AonTakerAbandoned ==
  TookBid =>
    \A i \in 1..Len(attempts) :
      LET at == attempts[i]
      IN (at.taker.only_full_fill /\ at.need_after > 0) =>
           /\ at.cursor < Len(market_bids)
           /\ market_bids[at.cursor + 1] = at.taker
           /\ pre.market_bids[at.cursor + 1] = at.taker
           /\ ret.some => ret.value.taker.nonce # at.taker.nonce
           /\ IF at.cursor + 1 < Len(pre.market_bids)
              THEN /\ i < Len(attempts)
                   /\ attempts[i + 1].cursor = at.cursor + 1
                   /\ attempts[i + 1].taker = pre.market_bids[at.cursor + 2]
                   /\ attempts[i + 1].asks_before = at.asks_after
              ELSE /\ i = Len(attempts)
                   /\ ret = None
           /\ ret = take_bid_order(at.cursor + 1,
                      Entering(at.asks_after, pre.market_bids)).ret

\* C3 witness: an all-or-nothing taker was abandoned with need left and the
\* market bid behind it was matched in the same call.
C3_Witness ==
  /\ TookBid
  /\ Len(attempts) >= 2
  /\ attempts[1].taker.only_full_fill
  /\ attempts[1].need_after > 0
  /\ ret.some
  /\ ret.value.taker.nonce = attempts[2].taker.nonce

\* ---------------------------------------------------------------- C4
\* An ask was filled or consumed at visit i of the last matching call.
Filled(i) == visits[i].kind # "skip"

\* C4 as claimed: whenever an ask at price p is filled or consumed, every ask
\* that rested at a lower price with unfilled quantity when the call started
\* was filled or consumed earlier in the call.
C4_PricePriorityStrict ==
  TookBid =>
    \A i \in 1..Len(visits) :
      Filled(i) =>
        \A a \in Resting(pre.asks) :
          (a.limit_price < visits[i].price /\ Need(a) > 0) =>
            \E j \in 1..(i - 1) : visits[j].nonce = a.nonce /\ Filled(j)

\* Visit j stepped over the all-or-nothing ask a, whose available quantity
\* exceeded the need the taker of visit i had left at that moment.
SkippedBySameTaker(a, j, i) ==
  /\ visits[j].nonce = a.nonce
  /\ visits[j].kind = "skip"
  /\ visits[j].cursor = visits[i].cursor
  /\ a.only_full_fill
  /\ Need(a) > visits[j].need

\* C4 amended: whenever an ask at price p is filled or consumed, every ask
\* that rested at a lower price with unfilled quantity when the call started
\* was, earlier in the call, filled or consumed, or stepped over by the same
\* taker's sweep as an all-or-nothing ask larger than the taker's need.
C4_PricePriority ==
  TookBid =>
    \A i \in 1..Len(visits) :
      Filled(i) =>
        \A a \in Resting(pre.asks) :
          (a.limit_price < visits[i].price /\ Need(a) > 0) =>
            \E j \in 1..(i - 1) :
              \/ visits[j].nonce = a.nonce /\ Filled(j)
              \/ SkippedBySameTaker(a, j, i)

\* C4 witness: asks at two prices, the later-admitted one cheaper, both
\* filled by one call, the cheaper first.
C4_Witness ==
  /\ TookBid
  /\ \E i, j \in 1..Len(visits) :
       /\ i < j
       /\ Filled(i) /\ Filled(j)
       /\ visits[i].price < visits[j].price
       /\ visits[i].nonce > visits[j].nonce

\* ---------------------------------------------------------------- C5
\* a was admitted before the ask of visit i, at the same price.
AheadOf(a, i) ==
  /\ a.limit_price = visits[i].price
  /\ a.nonce < visits[i].nonce

\* C5 as claimed: whenever an ask is filled or consumed, every ask admitted
\* earlier at the same price and resting when the call started was filled or
\* consumed earlier in the call.
C5_TimePriorityStrict ==
  TookBid =>
    \A i \in 1..Len(visits) :
      Filled(i) =>
        \A a \in Resting(pre.asks) :
          AheadOf(a, i) =>
            \E j \in 1..(i - 1) : visits[j].nonce = a.nonce /\ Filled(j)

\* C5 amended: whenever an ask is filled or consumed, every ask admitted
\* earlier at the same price and resting when the call started was, earlier
\* in the call, filled or consumed, or stepped over by the same taker's sweep
\* as an all-or-nothing ask larger than the taker's need; the size and the
\* owner of an ask play no part.
C5_TimePriority ==
  TookBid =>
    \A i \in 1..Len(visits) :
      Filled(i) =>
        \A a \in Resting(pre.asks) :
          AheadOf(a, i) =>
            \E j \in 1..(i - 1) :
              \/ visits[j].nonce = a.nonce /\ Filled(j)
              \/ SkippedBySameTaker(a, j, i)

\* C5 witness: two asks at one price, the earlier one smaller, both filled
\* by one call, the earlier first.
C5_Witness ==
  /\ TookBid
  /\ \E a1, a2 \in Resting(pre.asks) :
       /\ a1.limit_price = a2.limit_price
       /\ a1.nonce < a2.nonce
       /\ a1.quantity < a2.quantity
       /\ \E i, j \in 1..Len(visits) :
            /\ i < j
            /\ visits[i].nonce = a1.nonce /\ Filled(i)
            /\ visits[j].nonce = a2.nonce /\ Filled(j)

\* ---------------------------------------------------------------- C6
\* C6: a price level whose last resting order a matching call consumed is no
\* key of asks when the call returns.
C6_LevelRemoved ==
  TookBid =>
    \A k \in DOMAIN pre.asks :
      (pre.asks[k] # <<>> /\ k \in DOMAIN asks) => asks[k] # <<>>

\* ---------------------------------------------------------------- C7
\* The orders held in any container of a book.
Held(b) ==
  Resting(b.bids) \cup Resting(b.asks) \cup Resting(b.stop_bids)
    \cup Resting(b.stop_asks) \cup Range(b.market_bids) \cup Range(b.market_asks)

\* C7: every order the book holds has 0 <= filled_quantity <= quantity, and
\* no U256 operation of the matching step has left the domain.
C7_FillBound ==
  /\ \A o \in Held(Book) :
       0 <= o.filled_quantity /\ o.filled_quantity <= o.quantity
  /\ ~overflow

\* C7 witness: a call raised the filled_quantity of a resting ask, which
\* stays in the book partially filled.
C7_Witness ==
  /\ TookBid
  /\ ~overflow
  /\ \E a \in Resting(asks) :
       /\ 0 < a.filled_quantity /\ a.filled_quantity < a.quantity
       /\ \E i \in 1..Len(visits) :
            /\ visits[i].nonce = a.nonce
            /\ visits[i].kind = "partial"
            /\ visits[i].need > 0

\* ---------------------------------------------------------------- C8
\* The nonces of a queue grow from front to back: the orders are in the
\* order of their admission.
InAdmissionOrder(q) ==
  \A i, j \in 1..Len(q) : i < j => q[i].nonce < q[j].nonce

\* C8: every price-level queue and every market queue holds its orders in
\* the order of their admission.
C8_FifoPreserved ==
  /\ \A k \in DOMAIN bids : InAdmissionOrder(bids[k])
  /\ \A k \in DOMAIN asks : InAdmissionOrder(asks[k])
  /\ \A k \in DOMAIN stop_bids : InAdmissionOrder(stop_bids[k])
  /\ \A k \in DOMAIN stop_asks : InAdmissionOrder(stop_asks[k])
  /\ InAdmissionOrder(market_bids)
  /\ InAdmissionOrder(market_asks)

\* C8 witness: a matching call changed an ask of a queue that still holds two
\* orders afterwards.
C8_Witness ==
  /\ TookBid
  /\ \E k \in DOMAIN asks :
       /\ Len(asks[k]) >= 2
       /\ asks[k] # pre.asks[k]

\* ---------------------------------------------------------------- C9
\* The orders handed to order_type: both sides, each price field at its two
\* sentinels and at two values in between, the other fields varying.
ClassifyPrices == {U256_ZERO, 1, U256_MAX - 1, U256_MAX}
ClassifyInputs ==
  {Order(ow, 1, q, 0, lp, sp, sd, aon) :
     ow \in {"a", "b"}, q \in {0, MaxQty}, lp \in ClassifyPrices,
     sp \in ClassifyPrices, sd \in Side, aon \in BOOLEAN}

\* A caller classifies an order; the book is not involved.
Classify ==
  /\ \E order \in ClassifyInputs :
       /\ call' = [op |-> "order_type", order |-> order]
       /\ ret' = order_type(order)
  /\ UNCHANGED <<bids, asks, stop_bids, stop_asks, market_bids, market_asks,
                 last_price_level, submitted, pre, visits, attempts, overflow>>

NextClassify == Classify

SpecClassify == Init /\ [][NextClassify]_vars

\* The classification table: for a Bid the limit sentinel is the maximum and
\* the stop sentinel zero, for an Ask the other way round.
LimitSentinel(side) == IF side = "Bid" THEN U256_MAX ELSE U256_ZERO
StopSentinel(side) == IF side = "Bid" THEN U256_ZERO ELSE U256_MAX
TableKind(side, limit_price, stop_price) ==
  IF limit_price = LimitSentinel(side)
  THEN IF stop_price = StopSentinel(side) THEN "Market" ELSE "Stop"
  ELSE IF stop_price = StopSentinel(side) THEN "Limit" ELSE "StopLimit"

Classified == call.op = "order_type"

\* C9: order_type returns the kind the table gives for (side, limit_price,
\* stop_price), whatever the other fields, and it never fails.
C9_Classification ==
  Classified =>
    /\ ret.some
    /\ ret.value \in OrderType
    /\ ret.value = TableKind(call.order.side, call.order.limit_price,
                             call.order.stop_price)

\* C9 witness: an Ask with limit_price 0 and a stop_price below the maximum
\* was classified as Stop.
C9_Witness ==
  /\ Classified
  /\ call.order.side = "Ask"
  /\ call.order.limit_price = U256_ZERO
  /\ call.order.stop_price = U256_MAX - 1
  /\ ret = Some("Stop")

\* ---------------------------------------------------------------- C10
Added == call.op = "add_order"

\* map is before with order appended to the queue at key, the queue created
\* if key is new, and every other queue as it was.
AppendedAt(map, before, key, order) ==
  /\ DOMAIN map = DOMAIN before \cup {key}
  /\ map[key] = Append(IF key \in DOMAIN before THEN before[key] ELSE <<>>, order)
  /\ \A k \in DOMAIN before : k # key => map[k] = before[k]

\* The containers of the book, by name.
Containers ==
  {"bids", "asks", "stop_bids", "stop_asks", "market_bids", "market_asks"}

\* The container an order of a kind and side belongs to.
ContainerOf(kind, side) ==
  IF kind = "Market" THEN (IF side = "Bid" THEN "market_bids" ELSE "market_asks")
  ELSE IF kind = "Limit" THEN (IF side = "Bid" THEN "bids" ELSE "asks")
  ELSE (IF side = "Bid" THEN "stop_bids" ELSE "stop_asks")

\* The number of places of a book that hold an order.
RECURSIVE Places(_)
Places(map) ==
  IF DOMAIN map = {} THEN 0
  ELSE LET k == CHOOSE x \in DOMAIN map : TRUE
       IN Len(map[k]) + Places([x \in DOMAIN map \ {k} |-> map[x]])
AllPlaces(b) ==
  Places(b.bids) + Places(b.asks) + Places(b.stop_bids) + Places(b.stop_asks)
    + Len(b.market_bids) + Len(b.market_asks)

\* C10: add_order either fails and leaves the book as it was, or appends the
\* order at the back of one queue of the container its kind and side choose
\* (for a Limit order the queue at its limit_price, created if new) and
\* leaves every other queue, every other container and last_price_level as
\* they were; and no order is held in two places of the book.
C10_AdmissionEffect ==
  /\ Added =>
       LET order == call.order
           c == ContainerOf(TableKind(order.side, order.limit_price, order.stop_price),
                            order.side)
           b == Book
       IN IF ~ret.ok THEN b = pre
          ELSE /\ \A x \in Containers \ {c} : b[x] = pre[x]
               /\ b.last_price_level = pre.last_price_level
               /\ c \in {"market_bids", "market_asks"} => b[c] = Append(pre[c], order)
               /\ c \in {"bids", "asks"} =>
                    AppendedAt(b[c], pre[c], order.limit_price, order)
               /\ c \in {"stop_bids", "stop_asks"} =>
                    \E k \in DOMAIN b[c] : AppendedAt(b[c], pre[c], k, order)
  /\ AllPlaces(Book) = Cardinality({o.nonce : o \in Held(Book)})

\* C10 witness: a Limit ask was appended behind another at its price level
\* while another level and a market bid were in the book.
C10_Witness ==
  /\ Added
  /\ ret.ok
  /\ call.order.side = "Ask"
  /\ call.order.limit_price \in DOMAIN asks
  /\ Len(asks[call.order.limit_price]) = 2
  /\ asks[call.order.limit_price][2] = call.order
  /\ pre.asks # EmptyMap

\* C10 witness of a new level: a Limit ask opened a price level beside an
\* existing one.
C10_WitnessNewLevel ==
  /\ Added
  /\ ret.ok
  /\ call.order.side = "Ask"
  /\ call.order.limit_price \in DOMAIN asks
  /\ call.order.limit_price \notin DOMAIN pre.asks
  /\ DOMAIN pre.asks # {}

\* ---------------------------------------------------------------- C11
\* C11: every order held under key k of stop_bids or stop_asks has
\* stop_price = k: a Stop or StopLimit order is stored under its trigger price.
C11_StopKeyedByStopPrice ==
  /\ \A k \in DOMAIN stop_bids : \A o \in Range(stop_bids[k]) : o.stop_price = k
  /\ \A k \in DOMAIN stop_asks : \A o \in Range(stop_asks[k]) : o.stop_price = k

\* ---------------------------------------------------------------- C12
\* The matching steps impl OrderBook offers a caller.
MatchingStep == TakeBidOrder

\* A market ask that can take nothing back waits at the front of market_asks
\* while a limit bid that may be filled in part rests in bids.
AskFacesBid ==
  /\ market_asks # <<>>
  /\ ~market_asks[1].only_full_fill
  /\ Need(market_asks[1]) > 0
  /\ \E bid \in Resting(bids) : ~bid.only_full_fill /\ Need(bid) > 0

\* C12: the matching step serves Ask-side takers too.  Whenever a market ask
\* at the front of market_asks faces a resting limit bid that is not
\* all-or-nothing, a matching step can match it: some matching step changes
\* market_asks (the ask is filled or removed).
C12_AskTakerMatched ==
  AskFacesBid => ENABLED (MatchingStep /\ market_asks' # market_asks)

\* ---------------------------------------------------------------- C13
\* The orders a drain of the market bids can still work on: the market bids
\* and the resting asks.
Backlog(b) == Len(b.market_bids) + Places(b.asks)

\* C13: every call of the bid matching step at cursor 0 that returns a result
\* leaves strictly fewer orders in market_bids and asks together than it
\* found, so a caller receives at most that many results before None.
C13_ResultShrinksBacklog ==
  (TookBidAtFront /\ ret.some) => Backlog(Book) < Backlog(pre)

\* C13 witness: a call at cursor 0 returned a result and left its taker in
\* market_bids, partially filled, for the next call.
C13_Witness ==
  /\ TookBidAtFront
  /\ ret.some
  /\ market_bids # <<>>
  /\ market_bids[1].nonce = ret.value.taker.nonce
  /\ Backlog(Book) = Backlog(pre) - 1

\* ---------------------------------------------------------------- C14
\* The sweep reached an ask that is not all-or-nothing and has more
\* available than the taker needs, the need being positive.
ReachedLargerAsk(i) ==
  /\ ~visits[i].ask.only_full_fill
  /\ Need(visits[i].ask) > visits[i].need
  /\ visits[i].need > 0

\* The nonces of the asks a call consumed.
Consumed == {visits[i].nonce : i \in {j \in 1..Len(visits) : visits[j].kind = "full"}}

\* The queue q without the asks the call consumed, the ask of visit i
\* holding filled more.
QueueAfterFill(q, i) ==
  LET kept == SelectSeq(q, LAMBDA o : o.nonce \notin Consumed)
  IN [j \in 1..Len(kept) |->
        IF kept[j].nonce = visits[i].nonce
        THEN [kept[j] EXCEPT !.filled_quantity = @ + visits[i].need]
        ELSE kept[j]]

\* C14: when the sweep reaches an ask that is not all-or-nothing and whose
\* available quantity exceeds the taker's positive need, the ask's
\* filled_quantity grows by exactly that need, the ask keeps its place in its
\* queue, the trade recorded for it carries the filled_quantity after the
\* fill, the need becomes 0 and no later ask is touched.
C14_PartialMakerFill ==
  TookBid =>
    \A i \in 1..Len(visits) :
      ReachedLargerAsk(i) =>
        /\ visits[i].kind = "partial"
        /\ i = Len(visits)
        /\ attempts[Len(attempts)].need_after = 0
        /\ visits[i].price \in DOMAIN asks
        /\ asks[visits[i].price] = QueueAfterFill(pre.asks[visits[i].price], i)
        /\ \E a \in Range(asks[visits[i].price]) :
             /\ a.nonce = visits[i].nonce
             /\ a.filled_quantity = visits[i].ask.filled_quantity + visits[i].need
        /\ ret.some
        /\ ret.value.makers[Len(ret.value.makers)] =
             [visits[i].ask EXCEPT !.filled_quantity = @ + visits[i].need]

\* C14 witness: asks A then B of quantity 2 each at one price and a market
\* bid of quantity 3. A is consumed and removed, B is left resting with
\* filled_quantity 1, the taker is removed and exactly two trades are
\* returned.
C14_Witness ==
  /\ TookBidAtFront
  /\ Len(pre.market_bids) = 1
  /\ pre.market_bids[1].quantity = 3 /\ pre.market_bids[1].filled_quantity = 0
  /\ \E p \in DOMAIN pre.asks :
       /\ Len(pre.asks[p]) = 2
       /\ \A j \in 1..2 : pre.asks[p][j].quantity = 2
                          /\ pre.asks[p][j].filled_quantity = 0
       /\ Len(visits) = 2
       /\ visits[1].kind = "full" /\ visits[1].nonce = pre.asks[p][1].nonce
       /\ ReachedLargerAsk(2) /\ visits[2].nonce = pre.asks[p][2].nonce
       /\ asks[p] = <<[pre.asks[p][2] EXCEPT !.filled_quantity = 1]>>
  /\ market_bids = <<>>
  /\ ret.some
  /\ Len(ret.value.makers) = 2

\* ---------------------------------------------------------------- C15
\* The last taker a call attempted, and its place in market_bids.
LastAttempt == attempts[Len(attempts)]
LastPlace == LastAttempt.cursor + 1

\* The call's last taker may be filled in part and ended its sweep in need.
TakerLeftInNeed ==
  /\ TookBid
  /\ attempts # <<>>
  /\ ~LastAttempt.taker.only_full_fill
  /\ LastAttempt.need_after > 0

\* The last taker with what it still needs written to filled_quantity.
TakerAfter ==
  [LastAttempt.taker EXCEPT
     !.filled_quantity = LastAttempt.taker.quantity - LastAttempt.need_after]

\* C15: a market bid that is not all-or-nothing and ends its sweep with
\* need > 0 and at least one trade stays in market_bids at its position with
\* filled_quantity = quantity - need, and the call returns that state with the
\* trades, so that a later call finds it with the reduced need. With no trade
\* the call returns None and the taker is unchanged.
C15_PartialTakerRests ==
  TakerLeftInNeed =>
    /\ LastAttempt.taker = pre.market_bids[LastPlace]
    /\ IF LastAttempt.maker_orders # <<>>
       THEN /\ market_bids = [pre.market_bids EXCEPT ![LastPlace] = TakerAfter]
            /\ Need(market_bids[LastPlace]) = LastAttempt.need_after
            /\ ret = Some([taker |-> TakerAfter,
                           makers |-> LastAttempt.maker_orders])
       ELSE /\ market_bids = pre.market_bids
            /\ ret = None

\* C15 witness: the taker at the front took a trade, still needs more and
\* rests at the front with a larger filled_quantity than before.
C15_Witness ==
  /\ TookBidAtFront
  /\ TakerLeftInNeed
  /\ LastAttempt.cursor = 0
  /\ LastAttempt.maker_orders # <<>>
  /\ LastAttempt.need_after < LastAttempt.need_before
  /\ market_bids[1].nonce = pre.market_bids[1].nonce
  /\ market_bids[1].filled_quantity > pre.market_bids[1].filled_quantity

\* ---------------------------------------------------------------- C16
\* The call's last taker ended its sweep with need 0 and a trade.
TakerConsumed ==
  /\ TookBid
  /\ attempts # <<>>
  /\ LastAttempt.need_after = 0
  /\ LastAttempt.maker_orders # <<>>

\* C16: when a matching step ends with need = 0 and at least one trade, the
\* taker is removed from market_bids and the taker record returned is its
\* final state, fully filled: filled_quantity = quantity.
C16_ConsumedTakerFinalState ==
  TakerConsumed =>
    /\ market_bids = remove(pre.market_bids, LastAttempt.cursor)
    /\ ret.some
    /\ ret.value.taker.nonce = LastAttempt.taker.nonce
    /\ ret.value.taker.filled_quantity = ret.value.taker.quantity

\* ---------------------------------------------------------------- C17
\* A book of four orders holds an abandoned all-or-nothing taker, the ask it
\* consumed, and a second taker with an ask left to match.
MaxRetryOrders == 4

\* Unfilled limit asks and market bids of positive quantity.
RetryInputs(n) ==
  {Order("a", n, q, 0, p, U256_MAX, "Ask", aon) :
     q \in 1..MaxQty, p \in AskPrices, aon \in BOOLEAN}
  \cup
  {Order("b", n, q, 0, U256_MAX, U256_ZERO, "Bid", aon) :
     q \in 1..MaxQty, aon \in BOOLEAN}

\* A caller submits a limit ask or a market bid.
AddRetryOrder ==
  /\ submitted < MaxRetryOrders
  /\ \E order \in RetryInputs(submitted + 1) : Admit(order, add_order(Book, order))
  /\ submitted' = submitted + 1
  /\ pre' = Book
  /\ visits' = <<>>
  /\ attempts' = <<>>
  /\ UNCHANGED overflow

NextRetry == AddRetryOrder \/ TakeBidOrder

SpecRetry == Init /\ [][NextRetry]_vars

\* The k-th taker a call attempted was all-or-nothing and left in need: the
\* call went on to the next cursor.
Abandoned(k) ==
  /\ attempts[k].taker.only_full_fill
  /\ attempts[k].need_after > 0

\* The price levels the sweep of the k-th taker deleted.
LevelsDeleted(k) == DOMAIN attempts[k].asks_before \ DOMAIN attempts[k].asks_after

\* C17: what the sweep of an abandoned all-or-nothing taker did to the asks is
\* not undone. The asks it consumed and the levels it deleted are absent from
\* the book the next cursor is attempted on and from the book when the call
\* returns, and the asks are not among the trades of the returned result.
C17_AbandonedSweepNotUndone ==
  TookBid =>
    \A k \in 1..Len(attempts) :
      Abandoned(k) =>
        /\ k < Len(attempts) => attempts[k + 1].asks_before = attempts[k].asks_after
        /\ \A m \in Range(attempts[k].maker_orders) :
             /\ Still(Resting(attempts[k].asks_after), m) = {}
             /\ Still(Resting(asks), m) = {}
             /\ ret.some => Still(Range(ret.value.makers), m) = {}
        /\ \A p \in LevelsDeleted(k) : p \notin DOMAIN asks

\* C17 witness: an abandoned all-or-nothing taker consumed an ask and had its
\* level deleted, and the call returned the trades of a later taker.
C17_Witness ==
  /\ TookBid
  /\ ret.some
  /\ \E k \in 1..Len(attempts) :
       /\ Abandoned(k)
       /\ attempts[k].maker_orders # <<>>
       /\ LevelsDeleted(k) # {}
       /\ k < Len(attempts)

\* ---------------------------------------------------------------- C18
\* The call was made with a cursor past the end of market_bids.
PastTheEnd == TookBid /\ call.cursor >= Len(pre.market_bids)

\* The book is as it was before the call.
BookUnchanged == Book = pre

\* C18: a call ends after a bounded number of steps. The sweep of one taker
\* visits each resting ask at most once; the takers attempted are those at
\* cursor, cursor + 1, ... one by one, each but the last an abandoned
\* all-or-nothing taker, so at most Len(market_bids) takers are attempted;
\* and a cursor past the end of market_bids yields None with the book
\* unchanged.
C18_BoundedRetry ==
  TookBid =>
    /\ \A i, j \in 1..Len(visits) :
         (i < j /\ visits[i].cursor = visits[j].cursor) =>
           visits[i].nonce # visits[j].nonce
    /\ \A i \in 1..Len(visits) :
         \E k \in 1..Len(attempts) : attempts[k].cursor = visits[i].cursor
    /\ \A k \in 1..Len(attempts) :
         /\ attempts[k].cursor = call.cursor + k - 1
         /\ attempts[k].cursor < Len(pre.market_bids)
         /\ k < Len(attempts) => Abandoned(k)
    /\ Len(attempts) <= Len(pre.market_bids)
    /\ (attempts # <<>> /\ Abandoned(Len(attempts))) =>
         /\ LastPlace = Len(pre.market_bids)
         /\ ret = None
    /\ PastTheEnd =>
         /\ ret = None
         /\ BookUnchanged
         /\ attempts = <<>>
         /\ visits = <<>>

\* C18 witness: a call attempted two takers, the first an abandoned
\* all-or-nothing taker, and both sweeps visited the same resting ask.
C18_Witness ==
  /\ TookBidAtFront
  /\ Len(attempts) = 2
  /\ Abandoned(1)
  /\ \E i, j \in 1..Len(visits) :
       /\ visits[i].cursor = 0
       /\ visits[j].cursor = 1
       /\ visits[i].nonce = visits[j].nonce

\* C18 witness: a call with the cursor one past the end of a market_bids that
\* holds an order returned None.
C18_WitnessPastTheEnd ==
  /\ PastTheEnd
  /\ pre.market_bids # <<>>
  /\ Resting(pre.asks) # {}
  /\ ret = None

\* ---------------------------------------------------------------- C19
\* The containers and the field the bid matching step does not work on are
\* as they were before the call.
OtherSideUnchanged ==
  /\ bids = pre.bids
  /\ stop_bids = pre.stop_bids
  /\ stop_asks = pre.stop_asks
  /\ market_asks = pre.market_asks
  /\ last_price_level = pre.last_price_level

\* market_bids is as before the call but for the order at place, which has
\* another filled_quantity.
OnlyFilledAt(place) ==
  /\ Len(market_bids) = Len(pre.market_bids)
  /\ \A j \in 1..Len(market_bids) :
       market_bids[j] =
         IF j = place
         THEN [pre.market_bids[j] EXCEPT
                 !.filled_quantity = market_bids[j].filled_quantity]
         ELSE pre.market_bids[j]

\* market_bids is as before the call but for the order at place, which is
\* removed.
OnlyRemovedAt(place) ==
  market_bids = SubSeq(pre.market_bids, 1, place - 1)
                  \o SubSeq(pre.market_bids, place + 1, Len(pre.market_bids))

\* C19: a call of take_bid_order leaves bids, stop_bids, stop_asks,
\* market_asks and last_price_level as they were, last_price_level being the
\* price given at construction; in market_bids it changes at most the taker
\* of the returned result, in its filled_quantity or by removing it, and
\* nothing when it returns None.
C19_TakeBidFrame ==
  /\ last_price_level \in InitialPrices
  /\ TookBid =>
       /\ OtherSideUnchanged
       /\ IF ret.some
          THEN \E place \in 1..Len(pre.market_bids) :
                 /\ pre.market_bids[place].nonce = ret.value.taker.nonce
                 /\ OnlyFilledAt(place) \/ OnlyRemovedAt(place)
          ELSE market_bids = pre.market_bids

\* C19 witness: the call abandoned the all-or-nothing taker at the front and
\* removed the taker behind it, with a result; the front taker is as it was.
C19_Witness ==
  /\ TookBidAtFront
  /\ ret.some
  /\ Len(pre.market_bids) = 2
  /\ pre.market_bids[2].nonce = ret.value.taker.nonce
  /\ market_bids = <<pre.market_bids[1]>>

\* C19 witness: the call returned a result while orders rested on the other
\* containers.
C19_WitnessOtherSide ==
  /\ TookBid
  /\ ret.some
  /\ Resting(bids) \cup Resting(stop_bids) \cup Resting(stop_asks)
       \cup Range(market_asks) # {}

====
